---- MODULE Spec2Model ----
(***************************************************************************)
(* Model of the trader-portfolio scoring handler (main.py lambda_handler)  *)
(* and of the helpers it calls.                                            *)
(*                                                                         *)
(* Conventions                                                             *)
(*  - A nullable cell of a DataFrame (None / NaN / NaT) is NULL == <<>>;   *)
(*    a present value v is Some(v) == <<v>>.                               *)
(*  - Floating point numbers are modelled as exact rationals <<n, d>> in   *)
(*    lowest terms with d > 0 (rounding error is abstracted away).         *)
(*  - FETCH_DATE is measured in whole hours.                               *)
(*  - A DataFrame is a sequence of records (its rows, in row order).       *)
(***************************************************************************)
EXTENDS Integers, Sequences, FiniteSets, TLC

VARIABLES
    pc,              \* position of the handler
    df,              \* snapshot rows returned by get_trader_portfolio_agg
    tokens_periods,  \* filtered and sorted (token, window) periods
    merged,          \* one row per surviving period, with all metrics
    token_scores,    \* one row per token: score, current fields, address
    final_data,      \* token_scores after the enrichment merges
    response,        \* what the handler returned
    response_data,   \* the handler's result dictionary: "absent" or "list"
    fault,           \* the statement of the pipeline that raised, or "none"
    m_fn,            \* metric function applied in the metric specification
    m_current,       \* its first argument
    m_past,          \* its second argument
    m_out,           \* its result
    i_pc,            \* position of each of two invocations of the handler
    i_table,         \* rows the table holds when the invocation queries it
    i_meta,          \* addresses TOKEN_DATA knows when the invocation asks
    i_delivered,     \* the rows in the order the query delivered them
    i_locals,        \* local frames of the handler: df, merged, token_scores
    i_response,      \* what each invocation returned
    i_overlapped,    \* a step ran while the other invocation was under way
    g_pc,            \* position of a call of get_token_data / batch_addresses
    unique_addresses,\* get_token_data: the cleaned, de-duplicated addresses
    address_batches, \* get_token_data: the batches it loops over
    idx,             \* get_token_data: number of the batch processed next
    token_data,      \* get_token_data: addresses that have an entry so far
    g_calls,         \* SDK calls issued so far: <<batch, call, outcome>>
    g_result,        \* what get_token_data returned
    ba_addresses,    \* batch_addresses: its first argument
    ba_size,         \* batch_addresses: the batch size it used
    ba_out,          \* batch_addresses: its result
    r_pc,            \* position of the handler in the request checks
    event,           \* the event the handler was invoked with
    method,          \* the HTTP method the handler extracted
    r_response,      \* the response the handler returned, if any
    cors_headers,    \* the local cors_headers is bound
    session,         \* the local session: "unbound" or "created"
    r_calls,         \* external calls the handler made, in order
    r_faults,        \* the blocks of the handler in which a statement raised
    r_raised         \* the exception that left the handler, or "none"

pipeline_vars == <<pc, df, tokens_periods, merged, token_scores, final_data, response,
                   response_data, fault>>
metric_vars == <<m_fn, m_current, m_past, m_out>>

invocation_vars == <<i_pc, i_table, i_meta, i_delivered, i_locals, i_response,
                     i_overlapped>>

batch_vars == <<g_pc, unique_addresses, address_batches, idx, token_data, g_calls,
                g_result, ba_addresses, ba_size, ba_out>>

request_vars == <<r_pc, event, method, r_response, cors_headers, session, r_calls,
                  r_faults, r_raised>>

non_pipeline_vars == <<metric_vars, invocation_vars, batch_vars, request_vars>>
non_metric_vars == <<pipeline_vars, invocation_vars, batch_vars, request_vars>>
non_invocation_vars == <<pipeline_vars, metric_vars, batch_vars, request_vars>>
non_batch_vars == <<pipeline_vars, metric_vars, invocation_vars, request_vars>>
non_request_vars == <<pipeline_vars, metric_vars, invocation_vars, batch_vars>>
vars == <<pipeline_vars, metric_vars, invocation_vars, batch_vars, request_vars>>

----------------------------------------------------------------------------
(* Nullable cells *)

NULL == <<>>
Some(v) == <<v>>
IsNull(x) == x = NULL
Val(x) == x[1]

----------------------------------------------------------------------------
(* Exact rational arithmetic standing for Python float arithmetic *)

Abs(x) == IF x < 0 THEN -x ELSE x

RECURSIVE Gcd(_, _)
Gcd(a, b) == IF b = 0 THEN a ELSE Gcd(b, a % b)

Rat(n, d) ==
    LET g == Gcd(Abs(n), Abs(d))
        s == IF d < 0 THEN -1 ELSE 1
    IN  <<(s * n) \div g, (s * d) \div g>>

FromInt(n) == <<n, 1>>
RZero == <<0, 1>>
RAdd(a, b) == Rat(a[1] * b[2] + b[1] * a[2], a[2] * b[2])
RMul(a, b) == Rat(a[1] * b[1], a[2] * b[2])
RLess(a, b) == a[1] * b[2] < b[1] * a[2]
RLeq(a, b) == a[1] * b[2] <= b[1] * a[2]

RECURSIVE Pow2(_)
Pow2(n) == IF n = 0 THEN 1 ELSE 2 * Pow2(n - 1)

RECURSIVE RSum(_)
RSum(s) == IF s = <<>> THEN RZero ELSE RAdd(Head(s), RSum(Tail(s)))

----------------------------------------------------------------------------
(* Generic DataFrame helpers *)

\* The rows of a frame given as a function on 1..n, as an explicit sequence.
Rows(f) == f \o <<>>

\* F(v), with the intermediate frame v computed once (an assignment to a local
\* variable of the handler).
Let(v, F(_)) == CHOOSE r \in {F(x) : x \in {v}} : TRUE

SetMax(S) == CHOOSE x \in S : \A y \in S : y <= x
SetMin(S) == CHOOSE x \in S : \A y \in S : x <= y

\* Stable sort of a sequence by a strict order Less: an element's position is
\* one more than the number of elements that go before it.
StableSort(s, Less(_, _)) ==
    LET pos == [i \in DOMAIN s |->
                   1 + Cardinality({j \in DOMAIN s :
                           \/ Less(s[j], s[i])
                           \/ (~Less(s[i], s[j]) /\ j < i)})]
    IN  Rows([k \in DOMAIN s |-> s[CHOOSE i \in DOMAIN s : pos[i] = k]])

\* Series.unique(): distinct values in order of first appearance.
Unique(s) ==
    LET F[i \in 0..Len(s)] ==
            IF i = 0 THEN <<>>
            ELSE IF \E j \in 1..(i - 1) : s[j] = s[i] THEN F[i - 1]
                 ELSE Append(F[i - 1], s[i])
    IN  F[Len(s)]

\* Concatenation of a sequence of sequences.
RECURSIVE Flatten(_)
Flatten(ss) == IF ss = <<>> THEN <<>> ELSE Head(ss) \o Flatten(Tail(ss))

\* Lexicographic order of the token symbols of the model.
SymbolOrder == <<"A", "B">>
SymbolRank(sym) == CHOOSE i \in DOMAIN SymbolOrder : SymbolOrder[i] = sym

SymbolsIn(d) == {d[i].TOKEN_SYMBOL : i \in DOMAIN d}
RowsOf(d, sym) == {i \in DOMAIN d : d[i].TOKEN_SYMBOL = sym}

----------------------------------------------------------------------------
(* Configuration: main.py lines 174-176, 341-342 *)

time_intervals == <<1, 2, 4, 12, 24>>
time_labels == <<"1h", "2h", "4h", "12h", "24h">>
weights ==
    [l \in {"1h", "2h", "4h", "12h", "24h"} |->
        CASE l = "1h"  -> Rat(40, 100)
          [] l = "2h"  -> Rat(35, 100)
          [] l = "4h"  -> Rat(20, 100)
          [] l = "12h" -> Rat(5, 100)
          [] l = "24h" -> Rat(0, 100)]
balance_weight == Rat(7, 10)
trader_count_weight == Rat(3, 10)

----------------------------------------------------------------------------
(* 1. Data preparation: main.py lines 191-229 *)

most_recent_dates_global(d) ==
    [sym \in SymbolsIn(d) |-> SetMax({d[i].FETCH_DATE : i \in DOMAIN d})]

most_recent_dates(d) ==
    [sym \in SymbolsIn(d) |-> SetMax({d[i].FETCH_DATE : i \in RowsOf(d, sym)})]

df_min_dates(d) ==
    [sym \in SymbolsIn(d) |-> SetMin({d[i].FETCH_DATE : i \in RowsOf(d, sym)})]

tokens(d) == Unique(Rows([i \in DOMAIN d |-> d[i].TOKEN_SYMBOL]))

\* The cross join of tokens and windows, with the dates merged in (lines 200-214).
tokens_periods_all(d) ==
    LET tk == tokens(d)
        n == Len(time_intervals)
    IN  Rows([k \in 1..(Len(tk) * n) |->
            LET sym == tk[((k - 1) \div n) + 1]
                i == ((k - 1) % n) + 1
            IN  [TOKEN_SYMBOL     |-> sym,
                 TIME_DELTA       |-> time_intervals[i],
                 PERIOD_LABEL     |-> time_labels[i],
                 MOST_RECENT_DATE |-> most_recent_dates(d)[sym],
                 TARGET_DATE      |-> most_recent_dates(d)[sym] - time_intervals[i],
                 MIN_FETCH_DATE   |-> df_min_dates(d)[sym]]])

HasHistoryStrict(p) == p.TARGET_DATE > p.MIN_FETCH_DATE

\* Line 215: the rows that are kept.
HasHistoryAlways(p) == TRUE
HasHistoryExact(p) == p.TARGET_DATE = p.MIN_FETCH_DATE
HasHistory(p) == p.TARGET_DATE >= p.MIN_FETCH_DATE

PeriodBefore(a, b) ==
    \/ a.TARGET_DATE < b.TARGET_DATE
    \/ /\ a.TARGET_DATE = b.TARGET_DATE
       /\ SymbolRank(a.TOKEN_SYMBOL) < SymbolRank(b.TOKEN_SYMBOL)

SnapshotBefore(a, b) ==
    \/ a.FETCH_DATE < b.FETCH_DATE
    \/ /\ a.FETCH_DATE = b.FETCH_DATE
       /\ SymbolRank(a.TOKEN_SYMBOL) < SymbolRank(b.TOKEN_SYMBOL)

\* Lines 215 and 224: filter, then sort by (TARGET_DATE, TOKEN_SYMBOL).
plan_periods(d) ==
    Let(SelectSeq(tokens_periods_all(d), HasHistory),
        LAMBDA kept : StableSort(kept, PeriodBefore))

\* Line 225: df.sort_values(['FETCH_DATE', 'TOKEN_SYMBOL'], inplace=True).
sort_df(d) == StableSort(d, SnapshotBefore)

----------------------------------------------------------------------------
(* 2. Merge as-of: main.py lines 236-255 *)

\* direction='nearest': the row of the token closest to the target on either side.
asof_nearest(right, sym, target) ==
    LET C == RowsOf(right, sym)
        Dist(j) == Abs(right[j].FETCH_DATE - target)
    IN  IF C = {} THEN 0
        ELSE SetMax({j \in C : \A i \in C : Dist(j) <= Dist(i)})

\* direction='backward': the last row of the (sorted) right frame with the same
\* TOKEN_SYMBOL whose FETCH_DATE is <= the target; 0 when there is none.
asof_backward(right, sym, target) ==
    LET C == {j \in RowsOf(right, sym) : right[j].FETCH_DATE <= target}
    IN  IF C = {} THEN 0 ELSE SetMax(C)

merge_asof(left, right) ==
    Rows([k \in DOMAIN left |->
        LET j == asof_backward(right, left[k].TOKEN_SYMBOL, left[k].TARGET_DATE)
        IN  left[k] @@
            (IF j = 0
             THEN [PAST_FETCH_DATE    |-> NULL,
                   PAST_TOTAL_BALANCE |-> NULL,
                   PAST_TRADER_COUNT  |-> NULL,
                   TOKEN_ADDRESS      |-> NULL,
                   CATEGORY           |-> NULL]
             ELSE [PAST_FETCH_DATE    |-> Some(right[j].FETCH_DATE),
                   PAST_TOTAL_BALANCE |-> right[j].TOTAL_BALANCE,
                   PAST_TRADER_COUNT  |-> right[j].TRADER_COUNT,
                   TOKEN_ADDRESS      |-> right[j].TOKEN_ADDRESS,
                   CATEGORY           |-> right[j].CATEGORY])])

----------------------------------------------------------------------------
(* 3. Current data: main.py lines 261-277 *)

\* GroupBy.last(): per column, the last non-null entry of the group.
group_last(d, sym, col) ==
    LET I == {i \in RowsOf(d, sym) : ~IsNull(d[i][col])}
    IN  IF I = {} THEN NULL ELSE d[SetMax(I)][col]

current_data(d) ==
    [sym \in SymbolsIn(d) |->
        [CURRENT_TOTAL_BALANCE |-> group_last(d, sym, "TOTAL_BALANCE"),
         CURRENT_TRADER_COUNT  |-> group_last(d, sym, "TRADER_COUNT")]]

merge_current(m, cur) ==
    Rows([k \in DOMAIN m |-> m[k] @@ cur[m[k].TOKEN_SYMBOL]])

----------------------------------------------------------------------------
(* 4. Percentage and exponential changes: main.py lines 283-331 *)

\* A Python exception raised inside a metric (ZeroDivisionError) is the
\* "rational" with denominator 0.
Raise == <<1, 0>>
Raised(x) == x[2] = 0
RDiv(a, b) == IF b[1] = 0 \/ Raised(a) \/ Raised(b) THEN Raise
              ELSE Rat(a[1] * b[2], a[2] * b[1])

\* The same without the guard for past == 0.
balance_pct_change_unguarded(current, past) ==
    IF IsNull(past) \/ IsNull(current) THEN RZero
    ELSE RMul(RDiv(FromInt(Val(current) - Val(past)), FromInt(Abs(Val(past)))),
              FromInt(100))

compute_balance_pct_change(current, past) ==
    IF IsNull(past) \/ IsNull(current) THEN RZero
    ELSE IF Val(past) = 0
         THEN (IF Val(current) > 0 THEN FromInt(100) ELSE RZero)
         ELSE RMul(RDiv(FromInt(Val(current) - Val(past)), FromInt(Abs(Val(past)))),
                   FromInt(100))

\* The same without the guard for current <= past.
trader_count_score_unguarded(current, past) ==
    IF IsNull(past) \/ IsNull(current) THEN RZero
    ELSE FromInt(Pow2(Val(current)) - Pow2(Val(past)))

compute_trader_count_score(current, past) ==
    IF IsNull(past) \/ IsNull(current) THEN RZero
    ELSE IF Val(current) <= Val(past) THEN RZero
         ELSE FromInt(Pow2(Val(current)) - Pow2(Val(past)))

compute_trader_count_pct_change(current, past) ==
    IF IsNull(past) \/ IsNull(current) THEN RZero
    ELSE IF Val(past) = 0
         THEN (IF Val(current) > 0 THEN FromInt(100) ELSE RZero)
         ELSE RMul(RDiv(FromInt(Val(current) - Val(past)), FromInt(Abs(Val(past)))),
                   FromInt(100))

----------------------------------------------------------------------------
(* 5. Weighting: main.py lines 337-349 *)

\* Every window weighted alike.
time_weight_uniform(label) == Rat(20, 100)

time_weight(label) == weights[label]

\* The two metric weights exchanged.
effective_change_swapped(balance_pct_change, trader_count_score) ==
    RAdd(RMul(trader_count_weight, balance_pct_change),
         RMul(balance_weight, trader_count_score))

effective_change(balance_pct_change, trader_count_score) ==
    RAdd(RMul(balance_weight, balance_pct_change),
         RMul(trader_count_weight, trader_count_score))

\* The time weight left out.
weighted_change_unweighted(effective, weight) == effective

weighted_change(effective, weight) == RMul(effective, weight)

apply_changes(m) ==
    Rows([k \in DOMAIN m |->
        LET r == m[k]
            b == compute_balance_pct_change(r.CURRENT_TOTAL_BALANCE, r.PAST_TOTAL_BALANCE)
            t == compute_trader_count_score(r.CURRENT_TRADER_COUNT, r.PAST_TRADER_COUNT)
            p == compute_trader_count_pct_change(r.CURRENT_TRADER_COUNT, r.PAST_TRADER_COUNT)
            e == effective_change(b, t)
        IN  r @@ [BALANCE_PCT_CHANGE      |-> b,
                  TRADER_COUNT_SCORE      |-> t,
                  TRADER_COUNT_PCT_CHANGE |-> p,
                  TIME_WEIGHT             |-> time_weight(r.PERIOD_LABEL),
                  EFFECTIVE_CHANGE        |-> e,
                  WEIGHTED_CHANGE         |-> weighted_change(e, time_weight(r.PERIOD_LABEL))]])

\* Lines 236-349 in one piece: the merged frame with every metric column.
build_merged(periods, d) ==
    Let(merge_asof(periods, d),
        LAMBDA past : Let(current_data(d),
            LAMBDA cur : Let(merge_current(past, cur),
                LAMBDA m : apply_changes(m))))

----------------------------------------------------------------------------
(* 6. Final scores: main.py lines 355-367 *)

\* GroupBy 'first': the first non-null entry of the group.
group_first(m, sym, col) ==
    LET I == {i \in RowsOf(m, sym) : ~IsNull(m[i][col])}
    IN  IF I = {} THEN NULL ELSE m[SetMin(I)][col]

\* GroupBy 'sum' of WEIGHTED_CHANGE over the rows of one token.
group_rows(m, sym) == SelectSeq(m, LAMBDA r : r.TOKEN_SYMBOL = sym)
sum_ungrouped(m, sym) == RSum(Rows([i \in DOMAIN m |-> m[i].WEIGHTED_CHANGE]))
group_sum(m, sym) ==
    LET g == group_rows(m, sym)
    IN  RSum(Rows([i \in DOMAIN g |-> g[i].WEIGHTED_CHANGE]))

\* The group keys in sorted order (groupby sorts its keys).
group_keys(m) ==
    Let(Unique(Rows([i \in DOMAIN m |-> m[i].TOKEN_SYMBOL])),
        LAMBDA syms : StableSort(syms, LAMBDA a, b : SymbolRank(a) < SymbolRank(b)))

aggregate_scores(m) ==
    LET keys == group_keys(m)
    IN  Rows([k \in DOMAIN keys |->
            [TOKEN_SYMBOL          |-> keys[k],
             WEIGHTED_CHANGE       |-> group_sum(m, keys[k]),
             CURRENT_TOTAL_BALANCE |-> group_first(m, keys[k], "CURRENT_TOTAL_BALANCE"),
             CURRENT_TRADER_COUNT  |-> group_first(m, keys[k], "CURRENT_TRADER_COUNT")]])

\* sort_values('WEIGHTED_CHANGE', ascending=False); rows with equal scores keep
\* their order.
ScoreBefore(a, b) == RLess(b.WEIGHTED_CHANGE, a.WEIGHTED_CHANGE)
ScoreAfter(a, b) == RLess(a.WEIGHTED_CHANGE, b.WEIGHTED_CHANGE)
sort_scores_ascending(ts) == StableSort(ts, ScoreAfter)
sort_scores(ts) == StableSort(ts, ScoreBefore)

\* DataFrame.merge(how='left') on one key column: every left row in order, once
\* per matching right row, or once with the right columns null.
left_merge(left, right, key, nulls) ==
    Flatten(Rows([k \in DOMAIN left |->
        LET M == SelectSeq(right, LAMBDA r : r[key] = left[k][key])
        IN  IF M = <<>> THEN <<left[k] @@ nulls>>
            ELSE Rows([i \in DOMAIN M |-> left[k] @@ M[i]])]))

\* df[['TOKEN_SYMBOL', 'TOKEN_ADDRESS', 'CATEGORY']].drop_duplicates()
token_info(d) ==
    Unique(Rows([i \in DOMAIN d |-> [TOKEN_SYMBOL  |-> d[i].TOKEN_SYMBOL,
                                     TOKEN_ADDRESS |-> d[i].TOKEN_ADDRESS,
                                     CATEGORY      |-> d[i].CATEGORY]]))

score_tokens(m, d) ==
    Let(aggregate_scores(m),
        LAMBDA sums : Let(sort_scores(sums),
            LAMBDA ranked : Let(token_info(d),
                LAMBDA info : left_merge(ranked, info, "TOKEN_SYMBOL",
                                         [TOKEN_ADDRESS |-> NULL, CATEGORY |-> NULL]))))

----------------------------------------------------------------------------
(* 7-9. Enrichment merges and response data: main.py lines 373-414 *)

token_addresses(ts) == Unique(Rows([i \in DOMAIN ts |-> ts[i].TOKEN_ADDRESS]))

\* pd.DataFrame.from_dict(token_data, orient='index'): one row per address the
\* TOKEN_DATA table knows, with the columns of the item built for it.
token_data_df(addrs, found) ==
    LET hit == SelectSeq(addrs, LAMBDA a : a \in found)
    IN  Rows([i \in DOMAIN hit |-> [TOKEN_ADDRESS |-> hit[i], NAME |-> hit[i]]])

\* Line 384, for a non-empty metadata map.
merge_token_data(ts, found) ==
    Let(token_data_df(token_addresses(ts), found),
        LAMBDA td : left_merge(ts, td, "TOKEN_ADDRESS", [NAME |-> NULL]))

\* Lines 394-397: the price frame always has a TOKEN_ADDRESS column.
price_data_df(addrs, priced) ==
    LET hit == SelectSeq(addrs, LAMBDA a : a \in priced)
    IN  Rows([i \in DOMAIN hit |-> [TOKEN_ADDRESS |-> hit[i], PRICE |-> hit[i]]])

merge_price_data(fd, priced) ==
    Let(price_data_df(token_addresses(fd), priced),
        LAMBDA pd : left_merge(fd, pd, "TOKEN_ADDRESS", [PRICE |-> NULL]))

\* Lines 404-408: the rows of merged of each token, as a list.
per_token_metrics(m) ==
    LET keys == group_keys(m)
    IN  Rows([k \in DOMAIN keys |->
            [TOKEN_SYMBOL |-> keys[k], INTERVAL_METRICS |-> group_rows(m, keys[k])]])

merge_interval_metrics(fd, m) ==
    Let(per_token_metrics(m),
        LAMBDA ptm : left_merge(fd, ptm, "TOKEN_SYMBOL", [INTERVAL_METRICS |-> NULL]))

----------------------------------------------------------------------------
(* The snapshot sets the warehouse query can return *)

MaxSnapshots == 4

\* Token A is observed at hours 0, 1, 2 and 24, token B at hours 1 and 2.
Slots == ({"A"} \X {0, 1, 2, 24}) \cup ({"B"} \X {1, 2})
\* (TOTAL_BALANCE, TRADER_COUNT) of one snapshot.
Payloads == {<<Some(100), Some(2)>>, <<Some(150), Some(3)>>,
             <<Some(200), Some(5)>>, <<NULL, NULL>>}
AddressOf(sym) == IF sym = "A" THEN "addrA" ELSE "addrB"

Snapshot(sym, hour, payload) ==
    [TOKEN_SYMBOL  |-> sym,
     TOKEN_ADDRESS |-> Some(AddressOf(sym)),
     CATEGORY      |-> Some("ai"),
     TOTAL_BALANCE |-> payload[1],
     TRADER_COUNT  |-> payload[2],
     FETCH_DATE    |-> hour]

\* The query has no ORDER BY: the rows come grouped by token, newest first.
SlotKey(slot) == SymbolRank(slot[1]) * 1000 - slot[2]
SlotSeq(S) ==
    [k \in 1..Cardinality(S) |->
        CHOOSE x \in S : Cardinality({y \in S : SlotKey(y) < SlotKey(x)}) = k - 1]

SnapshotRows(S, pay) ==
    LET sl == SlotSeq(S)
    IN  Rows([k \in DOMAIN sl |-> Snapshot(sl[k][1], sl[k][2], pay[sl[k]])])

----------------------------------------------------------------------------
(* The handler, from the max-fetch-date lookup on: main.py lines 158-463 *)

\* utils/snowflake.py get_max_fetch_date: MAX(FETCH_DATE) over the rows the
\* table holds for the category, None when it holds none.
get_max_fetch_date_epoch(S) == Some(0)
get_max_fetch_date(S) ==
    IF S = {} THEN NULL ELSE Some(SetMax({slot[2] : slot \in S}))

\* A response is its status code and the top-level keys of its JSON body:
\* the error message ("" when the body has no 'error' key) and the 'data'
\* entry: "absent", "empty" ({}) or "list" (the rows of final_data).
NoResponse == [statusCode |-> 0, error |-> "", data |-> "absent"]

\* Lines 166-170: json.dumps({'data': {}}).
empty_response == [statusCode |-> 200, error |-> "", data |-> "empty"]

\* Lines 442-446: json.dumps(response_data, default=serialize).
data_response(rd) == [statusCode |-> 200, error |-> "", data |-> rd]

\* Lines 451-455 and 459-463: json.dumps({'error': message}); the result
\* dictionary is not part of it.
error_response_partial(rd, message) == [statusCode |-> 500, error |-> message, data |-> rd]
error_response(rd, message) == [statusCode |-> 500, error |-> message, data |-> "absent"]

\* The contents the table can hold for the category.
TableContents == {S \in SUBSET Slots : Cardinality(S) <= MaxSnapshots}

\* Lines 163-171: nothing stored for the category.
NoData ==
    /\ pc = "get_max_fetch_date"
    /\ \E S \in TableContents :
         IsNull(get_max_fetch_date(S))
    /\ pc' = "done"
    /\ response' = empty_response
    /\ UNCHANGED <<df, tokens_periods, merged, token_scores, final_data,
                   response_data, fault>>
    /\ UNCHANGED non_pipeline_vars

\* Lines 163-182: a max fetch date exists and the snapshot rows are read.
Query ==
    /\ pc = "get_max_fetch_date"
    /\ \E S \in TableContents :
         /\ ~IsNull(get_max_fetch_date(S))
         /\ \E pay \in [S -> Payloads] : df' = SnapshotRows(S, pay)
    /\ pc' = "score"
    /\ UNCHANGED <<tokens_periods, merged, token_scores, final_data, response,
                   response_data, fault>>
    /\ UNCHANGED non_pipeline_vars

\* Lines 163-182 on a table in which snapshots of token A were stored under
\* two token addresses: the query selects TOKEN_ADDRESS as stored and filters
\* on CATEGORY only.
MixedPayloads == {<<Some(100), Some(2)>>, <<Some(150), Some(3)>>}
Readdress(row, other) ==
    IF other THEN [row EXCEPT !.TOKEN_ADDRESS = Some("addrA2")] ELSE row
QueryMixed ==
    /\ pc = "get_max_fetch_date"
    /\ \E S \in TableContents :
         /\ ~IsNull(get_max_fetch_date(S))
         /\ \E pay \in [S -> MixedPayloads] :
            \E moved \in SUBSET {slot \in S : slot[1] = "A"} :
               LET sl == SlotSeq(S)
                   rows == SnapshotRows(S, pay)
               IN  df' = Rows([k \in DOMAIN rows |-> Readdress(rows[k], sl[k] \in moved)])
    /\ pc' = "score"
    /\ UNCHANGED <<tokens_periods, merged, token_scores, final_data, response,
                   response_data, fault>>
    /\ UNCHANGED non_pipeline_vars

\* Lines 163 and 179: get_max_fetch_date re-raises a failed query, and the
\* None that get_trader_portfolio_agg returns after a failed query makes
\* line 182 raise.
QueryFails ==
    /\ pc = "get_max_fetch_date"
    /\ pc' = "except"
    /\ fault' = "query"
    /\ UNCHANGED <<df, tokens_periods, merged, token_scores, final_data, response,
                   response_data>>
    /\ UNCHANGED non_pipeline_vars

\* Lines 191-367. With no surviving period merged.apply returns a frame and the
\* column assignment of line 295 raises; so does a metric that raises.
Score ==
    /\ pc = "score"
    /\ df' = sort_df(df)
    /\ tokens_periods' = plan_periods(df)
    /\ merged' = build_merged(tokens_periods', df')
    /\ IF merged' = <<>> \/ \E k \in DOMAIN merged' : Raised(merged'[k].WEIGHTED_CHANGE)
       THEN /\ pc' = "except"
            /\ fault' = "score"
            /\ UNCHANGED token_scores
       ELSE /\ pc' = "metadata"
            /\ token_scores' = score_tokens(merged', df')
            /\ UNCHANGED fault
    /\ UNCHANGED <<final_data, response, response_data>>
    /\ UNCHANGED non_pipeline_vars

\* Addresses of the ranked tokens that an enrichment source has an entry for.
known_addresses(ts, source) ==
    {a \in {ts[i].TOKEN_ADDRESS : i \in DOMAIN ts} : ~IsNull(a) /\ Val(a) \in source}

\* Lines 373-384: get_token_data_from_snowflake and the metadata merge. The
\* frame built from an empty dictionary has no TOKEN_ADDRESS column and the
\* merge of line 384 raises KeyError.
FetchMetadata ==
    /\ pc = "metadata"
    /\ \E found \in SUBSET {"addrA", "addrB"} :
         LET known == known_addresses(token_scores, found)
         IN  IF known = {}
             THEN pc' = "except" /\ fault' = "metadata_merge" /\ UNCHANGED final_data
             ELSE pc' = "price" /\ final_data' = merge_token_data(token_scores, known)
                  /\ UNCHANGED fault
    /\ UNCHANGED <<df, tokens_periods, merged, token_scores, response, response_data>>
    /\ UNCHANGED non_pipeline_vars

\* Line 377: get_token_data_from_snowflake logs a failed lookup and re-raises
\* it (utils/snowflake.py lines 249-251).
FetchMetadataFails ==
    /\ pc = "metadata"
    /\ pc' = "except"
    /\ fault' = "metadata_lookup"
    /\ UNCHANGED <<df, tokens_periods, merged, token_scores, final_data, response,
                   response_data>>
    /\ UNCHANGED non_pipeline_vars

\* get_price_data: the map of the addresses a price was returned for. A failed
\* lookup is caught inside and leaves its addresses out of the map.
get_price_data(ts, priced) == known_addresses(ts, priced)

\* Lines 390-446: get_price_data, the price merge, the interval metrics and
\* the 200 response carrying final_data. closes = FALSE: session.close() of
\* line 421 (or the serialisation of line 445) raises after the result
\* dictionary was filled.
FetchPrice ==
    /\ pc = "price"
    /\ \E priced \in SUBSET {"addrA", "addrB"} :
         final_data' =
             Let(merge_price_data(final_data, get_price_data(final_data, priced)),
                 LAMBDA fd : merge_interval_metrics(fd, merged))
    /\ response_data' = "list"
    /\ \E closes \in BOOLEAN :
         IF closes
         THEN /\ response' = data_response(response_data')
              /\ pc' = "done"
              /\ UNCHANGED fault
         ELSE /\ pc' = "except"
              /\ fault' = "serialize"
              /\ UNCHANGED response
    /\ UNCHANGED <<df, tokens_periods, merged, token_scores>>
    /\ UNCHANGED non_pipeline_vars

\* Lines 448-463: the pipeline's except block; when its own session.close()
\* raises, the outer except block answers.
Except ==
    /\ pc = "except"
    /\ \E message \in {"Error querying data.", "Internal Server Error"} :
         response' = error_response(response_data, message)
    /\ pc' = "done"
    /\ UNCHANGED <<df, tokens_periods, merged, token_scores, final_data,
                   response_data, fault>>
    /\ UNCHANGED non_pipeline_vars

----------------------------------------------------------------------------
(* The metric functions applied to single pairs of arguments *)

MaxTraderCount == 6

BalanceValues == {NULL} \cup {Some(v) : v \in {-50, 0, 10, 50, 100}}
TraderCountValues == {NULL} \cup {Some(v) : v \in 0..MaxTraderCount}

CallBalancePctChange ==
    /\ m_fn = "none"
    /\ \E c \in BalanceValues, p \in BalanceValues :
         /\ m_current' = c
         /\ m_past' = p
         /\ m_out' = compute_balance_pct_change(c, p)
    /\ m_fn' = "compute_balance_pct_change"
    /\ UNCHANGED non_metric_vars

CallTraderCountScore ==
    /\ m_fn = "none"
    /\ \E c \in TraderCountValues, p \in TraderCountValues :
         /\ m_current' = c
         /\ m_past' = p
         /\ m_out' = compute_trader_count_score(c, p)
    /\ m_fn' = "compute_trader_count_score"
    /\ UNCHANGED non_metric_vars

CallTraderCountPctChange ==
    /\ m_fn = "none"
    /\ \E c \in TraderCountValues, p \in TraderCountValues :
         /\ m_current' = c
         /\ m_past' = p
         /\ m_out' = compute_trader_count_pct_change(c, p)
    /\ m_fn' = "compute_trader_count_pct_change"
    /\ UNCHANGED non_metric_vars

MetricNext == CallBalancePctChange \/ CallTraderCountScore \/ CallTraderCountPctChange

MetricIdle ==
    /\ m_fn = "none"
    /\ m_current = NULL
    /\ m_past = NULL
    /\ m_out = RZero

----------------------------------------------------------------------------
(* Two invocations of the handler: main.py lines 41-463 *)

Invocations == {1, 2}

\* The frame that holds the local variables of invocation i: every call of
\* lambda_handler creates its own (response_data of line 159 included).
frame_shared(i) == 1
frame(i) == i

\* Rows the table can hold. The second and third row are two snapshots of
\* token A with the same FETCH_DATE; tokens A and B can score equally.
RerunRows ==
    << Snapshot("A", 0, <<Some(100), Some(2)>>),
       Snapshot("A", 1, <<Some(150), Some(3)>>),
       Snapshot("A", 1, <<Some(200), Some(5)>>),
       Snapshot("B", 0, <<Some(100), Some(2)>>),
       Snapshot("B", 1, <<Some(150), Some(3)>>) >>

RerunTables == {T \in SUBSET DOMAIN RerunRows : 1 \in T}

InOrder(T) ==
    Rows([k \in 1..Cardinality(T) |->
        CHOOSE x \in T : Cardinality({y \in T : y < x}) = k - 1])
Reverse(s) == Rows([k \in DOMAIN s |-> s[Len(s) + 1 - k]])

\* utils/snowflake.py lines 362-381: SELECT * FROM data has no ORDER BY, so
\* the rows of one table come in an order the warehouse chooses; two of the
\* possible orders are kept here.
Deliveries(T) ==
    LET rows == Rows([k \in 1..Cardinality(T) |-> RerunRows[InOrder(T)[k]]])
    IN  {rows, Reverse(rows)}

MetadataSources == {{}, {"addrA", "addrB"}}

\* Lines 191-367 as one function of the delivered rows.
score_stage(d) ==
    Let(sort_df(d), LAMBDA sd :
        Let(plan_periods(d), LAMBDA tp :
            Let(build_merged(tp, sd), LAMBDA mg :
                Let(mg = <<>> \/ \E k \in DOMAIN mg : Raised(mg[k].WEIGHTED_CHANGE),
                    LAMBDA failed :
                        [df |-> sd, merged |-> mg, failed |-> failed,
                         token_scores |-> IF failed THEN <<>> ELSE score_tokens(mg, sd)]))))

\* Lines 448-455 for an invocation: the error response, without rows.
invocation_error == [statusCode |-> 500, error |-> "Error querying data.", rows |-> <<>>]

\* Lines 373-446 as one function of the local frame and the metadata source;
\* every address has a price.
enrich_stage(locals, meta) ==
    Let(known_addresses(locals.token_scores, meta), LAMBDA known :
        IF known = {}
        THEN invocation_error
        ELSE Let(merge_token_data(locals.token_scores, known), LAMBDA td :
                 Let(merge_price_data(td, get_price_data(td, {"addrA", "addrB"})),
                     LAMBDA fd :
                         [statusCode |-> 200, error |-> "",
                          rows |-> merge_interval_metrics(fd, locals.merged)])))

EmptyFrame == [df |-> <<>>, merged |-> <<>>, failed |-> FALSE, token_scores |-> <<>>]
NotReturned == [statusCode |-> 0, error |-> "", rows |-> <<>>]

UnderWay(j) == i_pc[j] \in {"score", "enrich"}
Overlap(i) == i_overlapped \/ \E j \in Invocations \ {i} : UnderWay(j)

\* Lines 163-182: the invocation reads the table.
IQuery(i) ==
    /\ i_pc[i] = "start"
    /\ \E T \in RerunTables, meta \in MetadataSources :
         \E rows \in Deliveries(T) :
            /\ i_table' = [i_table EXCEPT ![i] = T]
            /\ i_meta' = [i_meta EXCEPT ![i] = meta]
            /\ i_delivered' = [i_delivered EXCEPT ![i] = rows]
            /\ i_locals' = [i_locals EXCEPT ![frame(i)] = [@ EXCEPT !.df = rows]]
    /\ i_pc' = [i_pc EXCEPT ![i] = "score"]
    /\ i_overlapped' = Overlap(i)
    /\ UNCHANGED i_response
    /\ UNCHANGED non_invocation_vars

\* Lines 191-367, and lines 448-455 when they raise.
IScore(i) ==
    /\ i_pc[i] = "score"
    /\ i_locals' = [i_locals EXCEPT ![frame(i)] = score_stage(i_locals[frame(i)].df)]
    /\ IF i_locals'[frame(i)].failed
       THEN /\ i_pc' = [i_pc EXCEPT ![i] = "done"]
            /\ i_response' = [i_response EXCEPT ![i] = invocation_error]
       ELSE /\ i_pc' = [i_pc EXCEPT ![i] = "enrich"]
            /\ UNCHANGED i_response
    /\ i_overlapped' = Overlap(i)
    /\ UNCHANGED <<i_table, i_meta, i_delivered>>
    /\ UNCHANGED non_invocation_vars

\* Lines 373-455: enrichment and the response.
IEnrich(i) ==
    /\ i_pc[i] = "enrich"
    /\ i_response' = [i_response EXCEPT ![i] = enrich_stage(i_locals[frame(i)], i_meta[i])]
    /\ i_pc' = [i_pc EXCEPT ![i] = "done"]
    /\ i_overlapped' = Overlap(i)
    /\ UNCHANGED <<i_table, i_meta, i_delivered, i_locals>>
    /\ UNCHANGED non_invocation_vars

InvocationNext == \E i \in Invocations : IQuery(i) \/ IScore(i) \/ IEnrich(i)

InvocationIdle ==
    /\ i_pc = [i \in Invocations |-> "start"]
    /\ i_table = [i \in Invocations |-> {}]
    /\ i_meta = [i \in Invocations |-> {}]
    /\ i_delivered = [i \in Invocations |-> <<>>]
    /\ i_locals = [i \in Invocations |-> EmptyFrame]
    /\ i_response = [i \in Invocations |-> NotReturned]
    /\ i_overlapped = FALSE

----------------------------------------------------------------------------
(* Batched lookups: utils/birdseye.py batch_addresses and get_token_data *)

\* Addresses are numbered 1, 2, ...; 0 stands for a blank string.
MaxAddresses == 201
BatchSize == 100
DefaultBatchSize == 0

Min(a, b) == IF a <= b THEN a ELSE b
UpTo(n) == Rows([k \in 1..n |-> k])

\* Line 37: [addresses[i:i + batch_size] for i in range(0, len(addresses),
\* batch_size)]. range() raises ValueError for a step of 0.
batch_addresses(addresses, batch_size) ==
    IF batch_size = 0
    THEN [raised |-> TRUE, batches |-> <<>>]
    ELSE LET n == Len(addresses)
             count == (n + batch_size - 1) \div batch_size
         IN  [raised |-> FALSE,
              batches |-> Rows([k \in 1..count |->
                  SubSeq(addresses, (k - 1) * batch_size + 1, Min(k * batch_size, n))])]

\* Line 52: list(set(address.strip() ... if address.strip())). The order of a
\* set of strings is arbitrary; ascending and descending order are kept here.
CleanOrders(addresses) ==
    LET clean == {addresses[k] : k \in DOMAIN addresses} \ {0}
        asc == IF clean = {} THEN <<>>
               ELSE SelectSeq(UpTo(SetMax(clean)), LAMBDA x : x \in clean)
    IN  {asc, Rows([k \in DOMAIN asc |-> asc[Len(asc) + 1 - k]])}

\* Argument lists of get_token_data: n addresses, optionally followed by a
\* repeated address and a blank one.
TokenAddressLists ==
    {UpTo(n) : n \in 0..MaxAddresses}
        \cup {UpTo(n) \o <<1, 0>> : n \in 1..MaxAddresses}
        \cup {<<0>>}

\* Lines 58-86: the for loop moves on to the next batch whatever happened.
next_batch_retry(i, outcome) == IF outcome = "ok" THEN i + 1 ELSE i
next_batch(i, outcome) == i + 1

\* Lines 66-71: the SDK calls one batch issues. The price/volume call is only
\* reached when the metadata call returned.
batch_calls(i, outcome) ==
    IF outcome = "metadata_fails"
    THEN << <<i, "metadata", "fails">> >>
    ELSE << <<i, "metadata", "ok">>,
            <<i, "price_volume", IF outcome = "ok" THEN "ok" ELSE "fails">> >>

\* Lines 66-79: the entries one batch adds to token_data. They are written
\* after both SDK calls have returned.
batch_entries_partial(batch, outcome) ==
    IF outcome \in {"ok", "price_volume_fails"}
    THEN {batch[k] : k \in DOMAIN batch}
    ELSE {}
batch_entries(batch, outcome) ==
    IF outcome = "ok" THEN {batch[k] : k \in DOMAIN batch} ELSE {}

\* Lines 45-56: the call, up to the loop.
CallGetTokenData ==
    /\ g_pc = "idle"
    /\ \E addresses \in TokenAddressLists :
         IF addresses = <<>>
         THEN /\ g_pc' = "returned"
              /\ g_result' = {}
              /\ UNCHANGED <<unique_addresses, address_batches>>
         ELSE /\ \E order \in CleanOrders(addresses) : unique_addresses' = order
              /\ address_batches' = batch_addresses(unique_addresses', BatchSize).batches
              /\ g_pc' = "loop"
              /\ UNCHANGED g_result
    /\ UNCHANGED <<idx, token_data, g_calls, ba_addresses, ba_size, ba_out>>
    /\ UNCHANGED non_batch_vars

\* Lines 58-86: one pass of the loop body; a failed call is caught and logged.
ProcessBatch ==
    /\ g_pc = "loop"
    /\ idx <= Len(address_batches)
    /\ \E outcome \in {"ok", "metadata_fails", "price_volume_fails"} :
         /\ g_calls' = g_calls \o batch_calls(idx, outcome)
         /\ token_data' = token_data \cup batch_entries(address_batches[idx], outcome)
         /\ idx' = next_batch(idx, outcome)
    /\ UNCHANGED <<g_pc, unique_addresses, address_batches, g_result,
                   ba_addresses, ba_size, ba_out>>
    /\ UNCHANGED non_batch_vars

\* Lines 88-89: the loop is over.
ReturnTokenData ==
    /\ g_pc = "loop"
    /\ idx > Len(address_batches)
    /\ g_result' = token_data
    /\ g_pc' = "returned"
    /\ UNCHANGED <<unique_addresses, address_batches, idx, token_data, g_calls,
                   ba_addresses, ba_size, ba_out>>
    /\ UNCHANGED non_batch_vars

\* batch_addresses(addresses, n) with an explicit batch size, on lists that
\* fill up to three batches.
CallBatchAddresses ==
    /\ g_pc = "idle"
    /\ \E n \in 0..MaxAddresses, size \in {1, 2, 3, BatchSize} :
         /\ n <= 2 * size + 1
         /\ ba_addresses' = UpTo(n)
         /\ ba_size' = size
         /\ ba_out' = batch_addresses(UpTo(n), size)
    /\ g_pc' = "batched"
    /\ UNCHANGED <<unique_addresses, address_batches, idx, token_data, g_calls, g_result>>
    /\ UNCHANGED non_batch_vars

\* batch_addresses(addresses): the batch size of the signature is used.
CallBatchAddressesDefault ==
    /\ g_pc = "idle"
    /\ \E n \in 0..3 :
         /\ ba_addresses' = UpTo(n)
         /\ ba_out' = batch_addresses(UpTo(n), DefaultBatchSize)
    /\ ba_size' = DefaultBatchSize
    /\ g_pc' = "batched"
    /\ UNCHANGED <<unique_addresses, address_batches, idx, token_data, g_calls, g_result>>
    /\ UNCHANGED non_batch_vars

BatchNext ==
    \/ CallGetTokenData \/ ProcessBatch \/ ReturnTokenData
    \/ CallBatchAddresses \/ CallBatchAddressesDefault

BatchIdle ==
    /\ g_pc = "idle"
    /\ unique_addresses = <<>>
    /\ address_batches = <<>>
    /\ idx = 1
    /\ token_data = {}
    /\ g_calls = <<>>
    /\ g_result = {}
    /\ ba_addresses = <<>>
    /\ ba_size = 0
    /\ ba_out = [raised |-> FALSE, batches |-> <<>>]

----------------------------------------------------------------------------
(* The handler from the event to its response: main.py lines 44-171, 416-463 *)

\* Method names an event can carry, in several spellings.
MethodNames == {"", "GET", "get", "POST", "post", "Post",
                "OPTIONS", "options", "Options", "DELETE", "delete"}

\* str.upper() on the names above.
Upper(name) ==
    CASE name \in {"GET", "get"} -> "GET"
      [] name \in {"POST", "post", "Post"} -> "POST"
      [] name \in {"OPTIONS", "options", "Options"} -> "OPTIONS"
      [] name \in {"DELETE", "delete"} -> "DELETE"
      [] OTHER -> name

\* What the text of a body is: not JSON, the JSON null, a JSON list, or a JSON
\* object with its 'category' and 'addresses' members.
Categories == {"absent", "null", "empty", "ai"}
AddressValues == {"absent", "null", "list", "empty_list", "string", "empty_string",
                  "object"}
EmptyObject == [json |-> "object", category |-> "absent", addresses |-> "absent"]
NotJson == [json |-> "invalid", category |-> "absent", addresses |-> "absent"]
Texts ==
    {[json |-> j, category |-> "absent", addresses |-> "absent"] :
        j \in {"invalid", "null", "list"}}
    \cup {[json |-> "object", category |-> c, addresses |-> a] :
            c \in Categories, a \in AddressValues}

\* The 'body' and 'isBase64Encoded' fields of an event. given: the event has
\* no body, a null body, or a string; encoding: how the string carries its text.
DefaultBody == [given |-> "absent", isBase64Encoded |-> FALSE, encoding |-> "plain",
                text |-> EmptyObject]
Bodies ==
    {[given |-> g, isBase64Encoded |-> f, encoding |-> "plain", text |-> EmptyObject] :
        g \in {"absent", "null"}, f \in BOOLEAN}
    \cup {[given |-> "string", isBase64Encoded |-> FALSE, encoding |-> "plain",
           text |-> t] : t \in Texts}
    \cup {[given |-> "string", isBase64Encoded |-> TRUE, encoding |-> "base64",
           text |-> t] : t \in Texts}
    \cup {[given |-> "string", isBase64Encoded |-> TRUE, encoding |-> enc,
           text |-> NotJson] : enc \in {"broken_base64", "not_utf8"}}

\* An event. kind: a dictionary, None, or a dictionary json.dumps cannot
\* encode. httpMethod and contextMethod (requestContext.http.method) are NULL
\* when the event does not have the field.
MethodFields == {NULL} \cup {Some(n) : n \in MethodNames}
Events ==
    {[kind |-> "dict", httpMethod |-> h, contextMethod |-> c, body |-> b] :
        h \in MethodFields, c \in MethodFields, b \in Bodies}
    \cup {[kind |-> k, httpMethod |-> NULL, contextMethod |-> NULL, body |-> DefaultBody] :
            k \in {"none", "unloggable"}}

\* Python truth value of event.get('httpMethod').
Truthy(field) == ~IsNull(field) /\ Val(field) # ""

\* Line 60: event.get('httpMethod') or event.get('requestContext', {})
\*              .get('http', {}).get('method', 'POST').upper()
\* The call of upper() binds to the right operand of `or` only.
extract_method(e) ==
    IF Truthy(e.httpMethod)
    THEN Val(e.httpMethod)
    ELSE Upper(IF IsNull(e.contextMethod) THEN "POST" ELSE Val(e.contextMethod))

\* Lines 81-93: the text json.loads receives, or how the decoding ended.
\* event.get('body', '{}') is '{}' for an absent body and None for a null one;
\* b64decode(None) raises TypeError, which line 87 does not catch;
\* b64decode('{}') is empty.
decode_body(b) ==
    IF b.isBase64Encoded
    THEN CASE b.given = "absent" -> [outcome |-> "text", text |-> NotJson]
           [] b.given = "null" -> [outcome |-> "TypeError", text |-> NotJson]
           [] b.encoding \in {"broken_base64", "not_utf8"} ->
                  [outcome |-> "Invalid base64 encoding.", text |-> NotJson]
           [] OTHER -> [outcome |-> "text", text |-> b.text]
    ELSE CASE b.given = "null" -> [outcome |-> "none", text |-> NotJson]
           [] OTHER -> [outcome |-> "text", text |-> b.text]

\* Line 109: `not category`.
category_missing(t) == t.category \in {"absent", "null", "empty"}

\* Line 119: `addresses and not isinstance(addresses, list)`.
addresses_rejected(t) == t.addresses \in {"string", "object"}

\* Lines 81-125: "pass" when the body is accepted, the message of the 400
\* response when it is rejected, the exception when a statement raises.
\* json.loads(None) raises TypeError; payload.get on a payload that is not a
\* dictionary raises AttributeError.
check_body(b) ==
    LET decoded == decode_body(b)
        t == decoded.text
    IN  CASE decoded.outcome \in {"TypeError", "Invalid base64 encoding."} -> decoded.outcome
          [] decoded.outcome = "none" -> "TypeError"
          [] t.json = "invalid" -> "Invalid JSON payload."
          [] t.json \in {"null", "list"} -> "AttributeError"
          [] category_missing(t) -> "Missing \"category\" in request payload."
          [] addresses_rejected(t) -> "\"addresses\" should be a list."
          [] OTHER -> "pass"

Exceptions == {"TypeError", "AttributeError"}

\* The external calls each block of the handler makes.
handler_calls_leaky(block) ==
    CASE block = "create_session" -> <<"create_snowflake_session">>
      [] block = "init_sdk" -> <<"initialize_birdseye_sdk">>
      [] block = "max_fetch_date" -> <<"get_max_fetch_date">>
      [] block \in {"empty_category", "close", "except"} -> <<"session.close">>
      [] block = "query" -> <<"get_trader_portfolio_agg">>
      [] block = "metadata" -> <<"get_token_data_from_snowflake">>
      [] block = "price" -> <<"get_price_data">>
      [] OTHER -> <<>>
handler_calls_eager(block) ==
    CASE block \in {"create_session", "validate"} -> <<"create_snowflake_session">>
      [] block = "init_sdk" -> <<"initialize_birdseye_sdk">>
      [] block = "max_fetch_date" -> <<"get_max_fetch_date">>
      [] block \in {"sdk_failure", "empty_category", "close", "except"} -> <<"session.close">>
      [] block = "query" -> <<"get_trader_portfolio_agg">>
      [] block = "metadata" -> <<"get_token_data_from_snowflake">>
      [] block = "price" -> <<"get_price_data">>
      [] OTHER -> <<>>
handler_calls(block) ==
    CASE block = "create_session" -> <<"create_snowflake_session">>
      [] block = "init_sdk" -> <<"initialize_birdseye_sdk">>
      [] block = "max_fetch_date" -> <<"get_max_fetch_date">>
      [] block \in {"sdk_failure", "empty_category", "close", "except"} -> <<"session.close">>
      [] block = "query" -> <<"get_trader_portfolio_agg">>
      [] block = "metadata" -> <<"get_token_data_from_snowflake">>
      [] block = "price" -> <<"get_price_data">>
      [] OTHER -> <<>>

\* Lines 131-136, 141-156: the message of the response to a failure of
\* create_snowflake_session or of initialize_birdseye_sdk.
setup_failure_message_generic(block) == "Internal Server Error"
setup_failure_message(block) ==
    IF block = "create_session"
    THEN "Failed to connect to data source."
    ELSE "Server configuration error."

NoEvent == [kind |-> "dict", httpMethod |-> NULL, contextMethod |-> NULL,
            body |-> DefaultBody]
NoRequestResponse == [statusCode |-> 0, body |-> "none"]

\* A return statement of the handler: every response dictionary is built with
\* 'headers': cors_headers.
Return(status, body) ==
    /\ r_response' = [statusCode |-> status, body |-> body]
    /\ r_pc' = "done"
    /\ UNCHANGED r_faults

\* Control goes on to the named block.
Goto(block) ==
    /\ r_pc' = block
    /\ UNCHANGED <<r_response, r_faults>>

\* A statement of the block raised: control goes to the named except clause.
RaiseTo(clause, block) ==
    /\ r_pc' = clause
    /\ r_faults' = r_faults \cup {block}
    /\ UNCHANGED r_response

\* The handler is invoked with an event.
ReceiveEvent ==
    /\ r_pc = "idle"
    /\ event' \in Events
    /\ r_pc' = "log_event"
    /\ UNCHANGED <<method, r_response, cors_headers, session, r_calls, r_faults, r_raised>>
    /\ UNCHANGED non_request_vars

\* Lines 44-57: the event is logged with json.dumps(event), then cors_headers
\* is bound. An event json.dumps cannot encode raises before the binding.
LogEvent ==
    /\ r_pc = "log_event"
    /\ IF event.kind = "unloggable"
       THEN RaiseTo("outer_except", "log_event") /\ UNCHANGED cors_headers
       ELSE cors_headers' = TRUE /\ Goto("route")
    /\ UNCHANGED <<event, method, session, r_calls, r_raised>>
    /\ UNCHANGED non_request_vars

\* Lines 60-79: method extraction and routing. event.get on None raises.
Route ==
    /\ r_pc = "route"
    /\ IF event.kind = "none"
       THEN RaiseTo("outer_except", "route") /\ UNCHANGED method
       ELSE /\ method' = extract_method(event)
            /\ IF method' = "OPTIONS"
               THEN Return(200, "")
               ELSE IF method' # "POST"
                    THEN Return(405, "Method Not Allowed")
                    ELSE Goto("parse_body")
    /\ UNCHANGED <<event, cors_headers, session, r_calls, r_raised>>
    /\ UNCHANGED non_request_vars

\* Lines 81-125: body decoding, JSON parsing, category and addresses checks.
ParseBody ==
    /\ r_pc = "parse_body"
    /\ LET outcome == check_body(event.body)
       IN  CASE outcome = "pass" -> Goto("create_session")
             [] outcome \in Exceptions -> RaiseTo("outer_except", "validate")
             [] OTHER -> Return(400, outcome)
    /\ r_calls' = r_calls \o handler_calls("validate")
    /\ UNCHANGED <<event, method, cors_headers, session, r_raised>>
    /\ UNCHANGED non_request_vars

\* Lines 128-136: create_snowflake_session returns a session or raises.
CreateSession ==
    /\ r_pc = "create_session"
    /\ r_calls' = r_calls \o handler_calls("create_session")
    /\ \E created \in BOOLEAN :
          IF created
          THEN /\ session' = "created"
               /\ Goto("init_sdk")
          ELSE /\ r_response' = [statusCode |-> 500,
                                  body |-> setup_failure_message("create_session")]
               /\ r_pc' = "done"
               /\ r_faults' = r_faults \cup {"create_session"}
               /\ UNCHANGED session
    /\ UNCHANGED <<event, method, cors_headers, r_raised>>
    /\ UNCHANGED non_request_vars

\* Lines 139-159: initialize_birdseye_sdk returns or raises; both except
\* clauses close the session and return. session.close() can raise itself,
\* and does so outside the try of line 161.
InitSdk ==
    /\ r_pc = "init_sdk"
    /\ \E initialised \in BOOLEAN :
          IF initialised
          THEN /\ r_calls' = r_calls \o handler_calls("init_sdk")
               /\ Goto("max_fetch_date")
          ELSE /\ r_calls' = r_calls \o handler_calls("init_sdk")
                                     \o handler_calls("sdk_failure")
               /\ \E closed \in BOOLEAN :
                     IF closed
                     THEN /\ r_response' = [statusCode |-> 500,
                                             body |-> setup_failure_message("init_sdk")]
                          /\ r_pc' = "done"
                          /\ r_faults' = r_faults \cup {"init_sdk"}
                     ELSE /\ r_pc' = "outer_except"
                          /\ r_faults' = r_faults \cup {"init_sdk", "sdk_failure"}
                          /\ UNCHANGED r_response
    /\ UNCHANGED <<event, method, cors_headers, session, r_raised>>
    /\ UNCHANGED non_request_vars

\* Lines 161-171: get_max_fetch_date raises, returns nothing for a category
\* without snapshots, or returns a date.
GetMaxFetchDate ==
    /\ r_pc = "max_fetch_date"
    /\ \E outcome \in {"raises", "none", "date"} :
          CASE outcome = "raises" ->
                   /\ r_calls' = r_calls \o handler_calls("max_fetch_date")
                   /\ RaiseTo("except", "max_fetch_date")
            [] outcome = "none" ->
                   /\ r_calls' = r_calls \o handler_calls("max_fetch_date")
                                         \o handler_calls("empty_category")
                   /\ \E closed \in BOOLEAN :
                         IF closed THEN Return(200, "{}")
                         ELSE RaiseTo("except", "empty_category")
            [] OTHER ->
                   /\ r_calls' = r_calls \o handler_calls("max_fetch_date")
                   /\ Goto("query")
    /\ UNCHANGED <<event, method, cors_headers, session, r_raised>>
    /\ UNCHANGED non_request_vars

\* A block of the pipeline that makes one external call: the call or a
\* statement after it raises, or control reaches the next block.
Block(here, next) ==
    /\ r_calls' = r_calls \o handler_calls(here)
    /\ \E raises \in BOOLEAN :
          IF raises THEN RaiseTo("except", here) ELSE Goto(next)
    /\ UNCHANGED <<event, method, cors_headers, session, r_raised>>
    /\ UNCHANGED non_request_vars

\* Lines 174-367: the snapshot query, planning and scoring.
QuerySnapshots ==
    /\ r_pc = "query"
    /\ Block("query", "metadata")

\* Lines 373-384: get_token_data_from_snowflake and its merge.
FetchTokenData ==
    /\ r_pc = "metadata"
    /\ Block("metadata", "price")

\* Lines 390-414: get_price_data, its merge and the response data.
FetchPriceData ==
    /\ r_pc = "price"
    /\ Block("price", "close")

\* Line 421: the session is closed on the success path.
CloseSession ==
    /\ r_pc = "close"
    /\ Block("close", "serialize")

\* Lines 428-446: the response data is serialised and returned; json.dumps
\* raises on a value serialize() does not know.
Serialize ==
    /\ r_pc = "serialize"
    /\ \E raises \in BOOLEAN :
          IF raises THEN RaiseTo("except", "serialize") ELSE Return(200, "data")
    /\ r_calls' = r_calls \o handler_calls("serialize")
    /\ UNCHANGED <<event, method, cors_headers, session, r_raised>>
    /\ UNCHANGED non_request_vars

\* Lines 448-455: the except clause of the try of line 161 closes the session
\* and returns; a close that raises leaves the clause.
InnerExcept ==
    /\ r_pc = "except"
    /\ r_calls' = r_calls \o handler_calls("except")
    /\ \E closed \in BOOLEAN :
          IF closed THEN Return(500, "Error querying data.")
          ELSE RaiseTo("outer_except", "except")
    /\ UNCHANGED <<event, method, cors_headers, session, r_raised>>
    /\ UNCHANGED non_request_vars

\* Lines 457-463: the outermost except clause builds its response with
\* cors_headers; while that name is unbound the clause raises
\* UnboundLocalError, which leaves the handler.
OuterExcept ==
    /\ r_pc = "outer_except"
    /\ IF cors_headers
       THEN Return(500, "Internal Server Error") /\ UNCHANGED r_raised
       ELSE /\ r_raised' = "UnboundLocalError"
            /\ r_pc' = "done"
            /\ r_faults' = r_faults \cup {"outer_except"}
            /\ UNCHANGED r_response
    /\ UNCHANGED <<event, method, cors_headers, session, r_calls>>
    /\ UNCHANGED non_request_vars

RequestNext ==
    \/ ReceiveEvent \/ LogEvent \/ Route \/ ParseBody
    \/ CreateSession \/ InitSdk \/ GetMaxFetchDate
    \/ QuerySnapshots \/ FetchTokenData \/ FetchPriceData
    \/ CloseSession \/ Serialize \/ InnerExcept \/ OuterExcept

RequestIdle ==
    /\ r_pc = "idle"
    /\ event = NoEvent
    /\ method = ""
    /\ r_response = NoRequestResponse
    /\ cors_headers = FALSE
    /\ session = "unbound"
    /\ r_calls = <<>>
    /\ r_faults = {}
    /\ r_raised = "none"

Init ==
    /\ pc = "get_max_fetch_date"
    /\ df = <<>>
    /\ tokens_periods = <<>>
    /\ merged = <<>>
    /\ token_scores = <<>>
    /\ final_data = <<>>
    /\ response = NoResponse
    /\ response_data = "absent"
    /\ fault = "none"
    /\ MetricIdle
    /\ InvocationIdle
    /\ BatchIdle
    /\ RequestIdle

Next ==
    \/ NoData \/ Query \/ QueryFails \/ Score
    \/ FetchMetadata \/ FetchMetadataFails \/ FetchPrice \/ Except

Spec == Init /\ [][Next]_vars

\* The handler on tables that store a token under more than one address.
MixedNext ==
    \/ QueryMixed \/ Score
    \/ FetchMetadata \/ FetchMetadataFails \/ FetchPrice \/ Except

MixedSpec == Init /\ [][MixedNext]_vars

\* The metric functions alone, on arguments drawn from the value sets above.
MetricSpec == Init /\ [][MetricNext]_vars

\* Two invocations whose steps interleave in any order.
InvocationSpec == Init /\ [][InvocationNext]_vars

\* Calls of get_token_data and of batch_addresses.
BatchSpec == Init /\ [][BatchNext]_vars

\* The request checks on every event of Events.
RequestSpec == Init /\ [][RequestNext]_vars

----------------------------------------------------------------------------
(* Notions shared by the properties *)

\* The scoring stage has just run and produced rows.
Scored == pc = "metadata"

\* The handler has returned a ranked list (final_data).
Ranked == pc = "done" /\ response.statusCode = 200 /\ response.data = "list"

WindowIndex == DOMAIN time_intervals
LabelOf(i) == time_labels[i]

\* Fetch dates of one token in the snapshot set.
DatesOf(sym) == {df[i].FETCH_DATE : i \in RowsOf(df, sym)}
LatestDate(sym) == CHOOSE h \in DatesOf(sym) : \A g \in DatesOf(sym) : g <= h
EarliestDate(sym) == CHOOSE h \in DatesOf(sym) : \A g \in DatesOf(sym) : h <= g
TargetOf(sym, i) == LatestDate(sym) - time_intervals[i]

\* Rows of merged for one (token, window).
MergedRows(sym, label) ==
    {k \in DOMAIN merged : merged[k].TOKEN_SYMBOL = sym /\ merged[k].PERIOD_LABEL = label}

REq(a, b) == a[1] * b[2] = b[1] * a[2]

----------------------------------------------------------------------------
(* C1: every surviving period is aligned to a snapshot of its own token whose
   fetch date is the greatest one of that token at or before the target date;
   a later snapshot is never chosen, however near it is to the target. *)
C1_BackwardAsof ==
    Scored =>
        \A k \in DOMAIN merged :
            LET r == merged[k] IN
            /\ ~IsNull(r.PAST_FETCH_DATE)
            /\ Val(r.PAST_FETCH_DATE) <= r.TARGET_DATE
            /\ \E j \in RowsOf(df, r.TOKEN_SYMBOL) :
                 /\ df[j].FETCH_DATE = Val(r.PAST_FETCH_DATE)
                 /\ df[j].TOTAL_BALANCE = r.PAST_TOTAL_BALANCE
                 /\ df[j].TRADER_COUNT = r.PAST_TRADER_COUNT
            /\ \A i \in RowsOf(df, r.TOKEN_SYMBOL) :
                 df[i].FETCH_DATE <= r.TARGET_DATE
                     => df[i].FETCH_DATE <= Val(r.PAST_FETCH_DATE)

\* A period whose nearest snapshot lies after the target, and another token has
\* a snapshot between the chosen one and the target.
C1_Witness ==
    /\ Scored
    /\ \E k \in DOMAIN merged :
         LET r == merged[k] IN
         /\ ~IsNull(r.PAST_FETCH_DATE)
         /\ \E i \in RowsOf(df, r.TOKEN_SYMBOL) :
              /\ df[i].FETCH_DATE > r.TARGET_DATE
              /\ df[i].FETCH_DATE - r.TARGET_DATE < r.TARGET_DATE - Val(r.PAST_FETCH_DATE)
         /\ \E i \in DOMAIN df :
              /\ df[i].TOKEN_SYMBOL # r.TOKEN_SYMBOL
              /\ df[i].FETCH_DATE > Val(r.PAST_FETCH_DATE)
              /\ df[i].FETCH_DATE <= r.TARGET_DATE

(* C2: a period is dropped exactly when its target date is earlier than the
   token's earliest fetch date; a dropped period has no entry in the token's
   INTERVAL_METRICS and adds nothing to its score, and a period whose target
   date equals the earliest fetch date is kept. *)
C2_DroppedExactly ==
    /\ Scored =>
         \A sym \in SymbolsIn(df) : \A i \in WindowIndex :
             /\ TargetOf(sym, i) >= EarliestDate(sym)
                    => Cardinality(MergedRows(sym, LabelOf(i))) = 1
             /\ TargetOf(sym, i) < EarliestDate(sym) => MergedRows(sym, LabelOf(i)) = {}
    /\ Ranked =>
         \A n \in DOMAIN final_data :
             LET row == final_data[n]
                 im == row.INTERVAL_METRICS
                 kept == {i \in WindowIndex :
                            TargetOf(row.TOKEN_SYMBOL, i) >= EarliestDate(row.TOKEN_SYMBOL)}
             IN  /\ {im[k].PERIOD_LABEL : k \in DOMAIN im} = {LabelOf(i) : i \in kept}
                 /\ Len(im) = Cardinality(kept)
                 /\ REq(row.WEIGHTED_CHANGE,
                        RSum(Rows([k \in DOMAIN im |-> im[k].WEIGHTED_CHANGE])))

\* A ranked token with one window kept at target date = earliest fetch date
\* and a longer window dropped.
C2_Witness ==
    /\ Ranked
    /\ \E n \in DOMAIN final_data :
         LET sym == final_data[n].TOKEN_SYMBOL IN
         /\ \E i \in WindowIndex :
              /\ TargetOf(sym, i) = EarliestDate(sym)
              /\ \E k \in DOMAIN final_data[n].INTERVAL_METRICS :
                   final_data[n].INTERVAL_METRICS[k].PERIOD_LABEL = LabelOf(i)
         /\ \E i \in WindowIndex : TargetOf(sym, i) < EarliestDate(sym)

\* The snapshot of a token with the maximum fetch date.
LatestSnapshot(sym) ==
    df[CHOOSE i \in RowsOf(df, sym) : df[i].FETCH_DATE = LatestDate(sym)]

(* C3: CURRENT_TOTAL_BALANCE and CURRENT_TRADER_COUNT of every window row of a
   token are the fields of the token's snapshot with the maximum fetch date,
   also when such a field is null and an older snapshot has a value. *)
C3_CurrentIsLatest ==
    Scored =>
        \A k \in DOMAIN merged :
            /\ merged[k].CURRENT_TOTAL_BALANCE
                   = LatestSnapshot(merged[k].TOKEN_SYMBOL).TOTAL_BALANCE
            /\ merged[k].CURRENT_TRADER_COUNT
                   = LatestSnapshot(merged[k].TOKEN_SYMBOL).TRADER_COUNT

\* The score of a token as the sum over the configured windows of the weighted
\* change of the window's row, when the window has one.
WindowContribution(sym, i) ==
    IF MergedRows(sym, LabelOf(i)) = {} THEN RZero
    ELSE merged[CHOOSE k \in MergedRows(sym, LabelOf(i)) : TRUE].WEIGHTED_CHANGE
SumOverWindows(sym) ==
    RSum(Rows([i \in WindowIndex |-> WindowContribution(sym, i)]))

(* C4: the score of every output token is the sum of the weighted changes of
   exactly the surviving windows of that token. *)
C4_ScoreIsSum ==
    /\ Scored =>
         /\ \A n \in DOMAIN token_scores :
              /\ REq(token_scores[n].WEIGHTED_CHANGE, SumOverWindows(token_scores[n].TOKEN_SYMBOL))
              /\ \A i \in WindowIndex :
                   Cardinality(MergedRows(token_scores[n].TOKEN_SYMBOL, LabelOf(i))) <= 1
         /\ \A k \in DOMAIN merged : merged[k].PERIOD_LABEL \in {LabelOf(i) : i \in WindowIndex}
    /\ Ranked =>
         \A n \in DOMAIN final_data :
              REq(final_data[n].WEIGHTED_CHANGE, SumOverWindows(final_data[n].TOKEN_SYMBOL))

\* Two tokens are ranked, each with a non-zero score, and the scores differ.
C4_Witness ==
    /\ Ranked
    /\ \E n, o \in DOMAIN final_data :
         /\ final_data[n].TOKEN_SYMBOL # final_data[o].TOKEN_SYMBOL
         /\ final_data[n].WEIGHTED_CHANGE[1] # 0
         /\ final_data[o].WEIGHTED_CHANGE[1] # 0
         /\ ~REq(final_data[n].WEIGHTED_CHANGE, final_data[o].WEIGHTED_CHANGE)
         /\ Len(final_data[n].INTERVAL_METRICS) >= 2

NonIncreasing(rows) ==
    \A a, b \in DOMAIN rows :
        a < b => RLeq(rows[b].WEIGHTED_CHANGE, rows[a].WEIGHTED_CHANGE)

(* C5: the rows of the returned list are in non-increasing order of score,
   and the order set by the sort is kept by each of the left merges. *)
C5_SortedDescending ==
    /\ Scored => NonIncreasing(token_scores)
    /\ pc = "price" => NonIncreasing(final_data)
    /\ Ranked => NonIncreasing(final_data)

\* A ranked list in which the first row has a strictly greater score and does
\* not come first in symbol order, with an enrichment field missing.
C5_Witness ==
    /\ Ranked
    /\ Len(final_data) >= 2
    /\ RLess(final_data[2].WEIGHTED_CHANGE, final_data[1].WEIGHTED_CHANGE)
    /\ SymbolRank(final_data[2].TOKEN_SYMBOL) < SymbolRank(final_data[1].TOKEN_SYMBOL)
    /\ IsNull(final_data[1].NAME)

(* C6: compute_balance_pct_change returns 0 when an argument is missing; for
   past = 0 it returns 100 if current > 0 and 0 otherwise; in every other case
   it returns (current - past) / abs(past) * 100; it never raises. *)
C6_BalancePctChange ==
    m_fn = "compute_balance_pct_change" =>
        /\ ~Raised(m_out)
        /\ m_out[2] > 0
        /\ (IsNull(m_current) \/ IsNull(m_past)) => m_out[1] = 0
        /\ (~IsNull(m_current) /\ ~IsNull(m_past)) =>
             LET c == Val(m_current)
                 p == Val(m_past)
             IN  /\ (p = 0 /\ c > 0) => (m_out[1] = 100 /\ m_out[2] = 1)
                 /\ (p = 0 /\ c <= 0) => m_out[1] = 0
                 /\ p > 0 => m_out[1] * p = (c - p) * 100 * m_out[2]
                 /\ p < 0 => m_out[1] * (0 - p) = (c - p) * 100 * m_out[2]
                 /\ (c = 100 /\ p = 50) => (m_out[1] = 100 /\ m_out[2] = 1)
                 /\ (c = 50 /\ p = 0) => (m_out[1] = 100 /\ m_out[2] = 1)

\* The function was applied to (100, 50) and returned 100.
C6_Witness ==
    /\ m_fn = "compute_balance_pct_change"
    /\ m_current = Some(100)
    /\ m_past = Some(50)
    /\ m_out = <<100, 1>>

(* C7: compute_trader_count_score returns 0 when an argument is missing or
   current <= past, and 2^current - 2^past otherwise; it is never negative and
   it is positive whenever current > past. *)
C7_TraderCountScore ==
    m_fn = "compute_trader_count_score" =>
        /\ m_out[2] = 1
        /\ m_out[1] >= 0
        /\ (IsNull(m_current) \/ IsNull(m_past)) => m_out[1] = 0
        /\ (~IsNull(m_current) /\ ~IsNull(m_past)) =>
             LET c == Val(m_current)
                 p == Val(m_past)
             IN  /\ c <= p => m_out[1] = 0
                 /\ c > p => (m_out[1] = 2 ^ c - 2 ^ p /\ m_out[1] > 0)
                 /\ (c = 5 /\ p = 3) => m_out[1] = 24

\* The function was applied to (5, 3) and returned 24.
C7_Witness ==
    /\ m_fn = "compute_trader_count_score"
    /\ m_current = Some(5)
    /\ m_past = Some(3)
    /\ m_out = <<24, 1>>

\* The decay weights in hundredths, as the configuration lists them.
Hundredths(label) ==
    CASE label = "1h" -> 40 [] label = "2h" -> 35 [] label = "4h" -> 20
      [] label = "12h" -> 5 [] label = "24h" -> 0

(* C8: in every surviving row EFFECTIVE_CHANGE = 0.7 * BALANCE_PCT_CHANGE +
   0.3 * TRADER_COUNT_SCORE and WEIGHTED_CHANGE = EFFECTIVE_CHANGE * the decay
   weight of the row's window; TRADER_COUNT_PCT_CHANGE enters neither. *)
C8_Weighting ==
    Scored =>
        \A k \in DOMAIN merged :
            LET r == merged[k]
                b == r.BALANCE_PCT_CHANGE
                t == r.TRADER_COUNT_SCORE
                e == r.EFFECTIVE_CHANGE
                w == r.WEIGHTED_CHANGE
            IN  /\ e[2] > 0 /\ w[2] > 0 /\ b[2] > 0 /\ t[2] > 0
                /\ 10 * e[1] * b[2] * t[2] = e[2] * (7 * b[1] * t[2] + 3 * t[1] * b[2])
                /\ 100 * w[1] * e[2] = w[2] * e[1] * Hundredths(r.PERIOD_LABEL)

\* A 2h row in which both metrics and the trader-count percentage are non-zero
\* and differ from each other.
C8_Witness ==
    /\ Scored
    /\ \E k \in DOMAIN merged :
         /\ merged[k].PERIOD_LABEL = "2h"
         /\ merged[k].BALANCE_PCT_CHANGE[1] # 0
         /\ merged[k].TRADER_COUNT_SCORE[1] # 0
         /\ merged[k].TRADER_COUNT_PCT_CHANGE[1] # 0
         /\ merged[k].TRADER_COUNT_PCT_CHANGE # merged[k].TRADER_COUNT_SCORE
         /\ merged[k].BALANCE_PCT_CHANGE # merged[k].TRADER_COUNT_SCORE

\* The score of a token from the windows other than 24h.
SumWithout24h(sym) ==
    RSum(Rows([i \in WindowIndex |->
        IF LabelOf(i) = "24h" THEN RZero ELSE WindowContribution(sym, i)]))

(* C9: a surviving 24h window is reported in INTERVAL_METRICS with its raw
   metrics, its weighted change is 0 whatever the metrics are, and the token's
   score is the sum over the other windows alone. *)
C9_InformationalWindow ==
    /\ Scored =>
         \A k \in DOMAIN merged :
             merged[k].PERIOD_LABEL = "24h" => merged[k].WEIGHTED_CHANGE[1] = 0
    /\ Ranked =>
         \A n \in DOMAIN final_data :
             LET row == final_data[n]
                 sym == row.TOKEN_SYMBOL
             IN  /\ REq(row.WEIGHTED_CHANGE, SumWithout24h(sym))
                 /\ \A k \in MergedRows(sym, "24h") :
                      \E j \in DOMAIN row.INTERVAL_METRICS :
                          LET im == row.INTERVAL_METRICS[j] IN
                          /\ im.PERIOD_LABEL = "24h"
                          /\ im.BALANCE_PCT_CHANGE = merged[k].BALANCE_PCT_CHANGE
                          /\ im.TRADER_COUNT_SCORE = merged[k].TRADER_COUNT_SCORE
                          /\ im.EFFECTIVE_CHANGE = merged[k].EFFECTIVE_CHANGE
                          /\ im.PAST_TOTAL_BALANCE = merged[k].PAST_TOTAL_BALANCE

\* A ranked token whose 24h window has a non-zero effective change and whose
\* score is non-zero.
C9_Witness ==
    /\ Ranked
    /\ \E n \in DOMAIN final_data :
         /\ final_data[n].WEIGHTED_CHANGE[1] # 0
         /\ \E j \in DOMAIN final_data[n].INTERVAL_METRICS :
              /\ final_data[n].INTERVAL_METRICS[j].PERIOD_LABEL = "24h"
              /\ final_data[n].INTERVAL_METRICS[j].EFFECTIVE_CHANGE[1] # 0
              /\ final_data[n].INTERVAL_METRICS[j].WEIGHTED_CHANGE[1] = 0

\* Token A has exactly the snapshots of the end-to-end scenario.
ScenarioA ==
    /\ DatesOf("A") = {0, 1, 2}
    /\ \A i \in RowsOf(df, "A") :
         /\ df[i].FETCH_DATE = 0 => (df[i].TOTAL_BALANCE = Some(100) /\ df[i].TRADER_COUNT = Some(2))
         /\ df[i].FETCH_DATE = 1 => (df[i].TOTAL_BALANCE = Some(150) /\ df[i].TRADER_COUNT = Some(3))
         /\ df[i].FETCH_DATE = 2 => (df[i].TOTAL_BALANCE = Some(200) /\ df[i].TRADER_COUNT = Some(5))

\* A rational rounded to two decimals, in hundredths.
RoundHundredths(r) == (200 * r[1] + r[2]) \div (2 * r[2])

(* C10: with snapshots (hour 0: 100, 2), (hour 1: 150, 3), (hour 2: 200, 5) the
   1h window is aligned to hour 1 and the 2h window to hour 0, the longer
   windows are dropped, the weighted changes are 0.4 * (0.7 * 100/3 + 0.3 * 24)
   and 0.35 * (0.7 * 100 + 0.3 * 28), and the score is their sum, 39.65. *)
C10_EndToEnd ==
    /\ (Scored /\ ScenarioA) =>
         /\ {merged[k].PERIOD_LABEL : k \in RowsOf(merged, "A")} = {"1h", "2h"}
         /\ Cardinality(RowsOf(merged, "A")) = 2
         /\ \A k \in RowsOf(merged, "A") :
              /\ merged[k].PERIOD_LABEL = "1h" =>
                   /\ merged[k].PAST_FETCH_DATE = Some(1)
                   /\ merged[k].PAST_TOTAL_BALANCE = Some(150)
                   /\ merged[k].PAST_TRADER_COUNT = Some(3)
                   /\ merged[k].BALANCE_PCT_CHANGE = <<100, 3>>
                   /\ merged[k].TRADER_COUNT_SCORE = <<24, 1>>
                   /\ merged[k].WEIGHTED_CHANGE = <<916, 75>>
              /\ merged[k].PERIOD_LABEL = "2h" =>
                   /\ merged[k].PAST_FETCH_DATE = Some(0)
                   /\ merged[k].PAST_TOTAL_BALANCE = Some(100)
                   /\ merged[k].PAST_TRADER_COUNT = Some(2)
                   /\ merged[k].BALANCE_PCT_CHANGE = <<100, 1>>
                   /\ merged[k].TRADER_COUNT_SCORE = <<28, 1>>
                   /\ merged[k].EFFECTIVE_CHANGE = <<392, 5>>
                   /\ merged[k].WEIGHTED_CHANGE = <<686, 25>>
    /\ (Ranked /\ ScenarioA) =>
         \E n \in DOMAIN final_data :
             /\ final_data[n].TOKEN_SYMBOL = "A"
             /\ final_data[n].WEIGHTED_CHANGE = <<2974, 75>>
             /\ RoundHundredths(final_data[n].WEIGHTED_CHANGE) = 3965
             /\ final_data[n].CURRENT_TOTAL_BALANCE = Some(200)
             /\ final_data[n].CURRENT_TRADER_COUNT = Some(5)

\* The scenario was ranked and token A reports its two surviving windows.
C10_Witness ==
    /\ Ranked
    /\ ScenarioA
    /\ \E n \in DOMAIN final_data :
         /\ final_data[n].TOKEN_SYMBOL = "A"
         /\ Len(final_data[n].INTERVAL_METRICS) = 2

----------------------------------------------------------------------------
(* Enrichment and faults *)

\* The scoring stage produced a ranking and the handler has returned.
ReturnedAfterScoring == pc = "done" /\ token_scores # <<>>

(* C12: enrichment is a left join. Whatever subset of the addresses is missing
   from the metadata map or from the price map (the empty metadata map
   included), the request succeeds and the output holds the row of every
   scored token at its ranked position. *)
C12_LeftJoin ==
    /\ fault # "metadata_merge"
    /\ Ranked =>
         /\ Len(final_data) = Len(token_scores)
         /\ \A n \in DOMAIN final_data :
              final_data[n].TOKEN_SYMBOL = token_scores[n].TOKEN_SYMBOL

(* C13: a failed enrichment lookup call is recovered. When the metadata lookup
   raised, the handler still returns the ranked list with status 200. *)
C13_LookupRecovered ==
    (pc = "done" /\ fault = "metadata_lookup") =>
        /\ response.statusCode = 200
        /\ response.data = "list"

(* C14: when the table holds nothing for the category the handler returns
   status 200 with body {"data": {}} and no snapshot query, scoring stage or
   enrichment call has run. *)
C14_EmptyCategory ==
    (pc = "done" /\ df = <<>> /\ fault # "query") =>
        /\ response = empty_response
        /\ fault = "none"
        /\ tokens_periods = <<>>
        /\ merged = <<>>
        /\ token_scores = <<>>
        /\ final_data = <<>>
        /\ response_data = "absent"

\* The handler answered an empty category.
C14_Witness ==
    /\ pc = "done"
    /\ df = <<>>
    /\ fault = "none"
    /\ response.statusCode = 200
    /\ response.data = "empty"

GenericErrors == {"Error querying data.", "Internal Server Error"}

(* C15: a fault raised by any stage of the pipeline ends in one status-500
   response whose body holds a generic error message only; no response carries
   both an error and a data list, and a 500 is only returned after a fault. *)
C15_SingleGenericError ==
    /\ (pc = "done" /\ fault # "none") =>
           /\ response.statusCode = 500
           /\ response.error \in GenericErrors
           /\ response.data = "absent"
    /\ ~(response.error # "" /\ response.data # "absent")
    /\ response.statusCode = 500 => fault # "none"
    /\ (pc = "done" /\ fault = "none") => response.statusCode = 200 /\ response.error = ""

\* A fault after the result dictionary was filled with the ranked list.
C15_Witness ==
    /\ pc = "done"
    /\ fault = "serialize"
    /\ response_data = "list"
    /\ final_data # <<>>
    /\ response.statusCode = 500

\* The planner has run on the snapshot rows.
Planned == df # <<>> /\ (pc = "metadata" \/ (pc = "except" /\ fault = "score"))

(* C16: before filtering, the planner yields exactly one period for every
   (distinct token, configured window) pair, and its target date is that
   token's own latest fetch date minus the window; the surviving periods are
   among them. *)
C16_PlannerPeriods ==
    Planned =>
        LET all == tokens_periods_all(df)
        IN  /\ Len(all) = Cardinality(SymbolsIn(df)) * Len(time_intervals)
            /\ \A sym \in SymbolsIn(df), i \in WindowIndex :
                 \E k \in DOMAIN all :
                    /\ all[k].TOKEN_SYMBOL = sym
                    /\ all[k].PERIOD_LABEL = LabelOf(i)
                    /\ all[k].TIME_DELTA = time_intervals[i]
                    /\ all[k].TARGET_DATE = LatestDate(sym) - time_intervals[i]
                    /\ \A j \in DOMAIN all :
                         (all[j].TOKEN_SYMBOL = sym /\ all[j].PERIOD_LABEL = LabelOf(i))
                             => j = k
            /\ \A k \in DOMAIN tokens_periods :
                 /\ \E j \in DOMAIN all : all[j] = tokens_periods[k]
                 /\ tokens_periods[k].TARGET_DATE =
                        LatestDate(tokens_periods[k].TOKEN_SYMBOL)
                            - tokens_periods[k].TIME_DELTA

\* Two tokens whose latest fetch dates differ were planned, and a window of the
\* token that is not the most recent one survived.
C16_Witness ==
    /\ pc = "metadata"
    /\ \E s1 \in SymbolsIn(df), s2 \in SymbolsIn(df) :
         /\ LatestDate(s1) < LatestDate(s2)
         /\ \E k \in DOMAIN tokens_periods : tokens_periods[k].TOKEN_SYMBOL = s1

----------------------------------------------------------------------------
(* Determinism and re-entrancy *)

\* The response the handler returns when it runs alone on delivered rows.
Alone(delivered, meta) ==
    Let(score_stage(delivered), LAMBDA st :
        IF st.failed THEN invocation_error ELSE enrich_stage(st, meta))

BothReturned == \A i \in Invocations : i_pc[i] = "done"

(* C11: determinism. Two runs on an identical snapshot set and identical
   enrichment responses return identical output, values and row order, also
   when two snapshots of a token share a fetch date. *)
C11_Deterministic ==
    (BothReturned /\ i_table[1] = i_table[2] /\ i_meta[1] = i_meta[2]) =>
        i_response[1] = i_response[2]

(* C17: invocations share no mutable state. Under every interleaving of the
   steps of two invocations each one returns the response it returns when it
   runs alone on the rows and enrichment data it was given. *)
C17_Reentrant ==
    \A i \in Invocations :
        i_pc[i] = "done" => i_response[i] = Alone(i_delivered[i], i_meta[i])

\* Two overlapping invocations on different tables both returned a ranking,
\* and the rankings differ.
C17_Witness ==
    /\ BothReturned
    /\ i_overlapped
    /\ i_table[1] # i_table[2]
    /\ i_response[1].statusCode = 200
    /\ i_response[2].statusCode = 200
    /\ i_response[1] # i_response[2]

----------------------------------------------------------------------------
(* Batching *)

\* Batch numbers of the metadata calls issued so far, in order of issue.
Attempts ==
    LET first == SelectSeq(g_calls, LAMBDA c : c[2] = "metadata")
    IN  Rows([k \in DOMAIN first |-> first[k][1]])

(* C18: get_token_data has no retry. Each batch is attempted exactly once and
   in order, a failed batch is never issued again, and the map is returned
   only after every batch has been attempted. *)
C18_NoRetry ==
    g_pc \in {"loop", "returned"} =>
        /\ Attempts = UpTo(Len(Attempts))
        /\ Len(Attempts) = idx - 1
        /\ Len(Attempts) <= Len(address_batches)
        /\ g_pc = "returned" =>
               /\ Len(Attempts) = Len(address_batches)
               /\ g_result = token_data

\* A call returned after three batches of which the first failed and a later
\* one succeeded.
C18_Witness ==
    /\ g_pc = "returned"
    /\ Len(address_batches) = 3
    /\ \E k \in DOMAIN g_calls : g_calls[k][1] = 1 /\ g_calls[k][3] = "fails"
    /\ \E k \in DOMAIN g_calls :
         g_calls[k] = <<3, "price_volume", "ok">>
    /\ g_result # {}

WellBatched(addresses, batches, n) ==
    /\ \A k \in DOMAIN batches : Len(batches[k]) \in 1..n
    /\ Flatten(batches) = addresses

(* C19: batch_addresses(addresses, n) splits the list into consecutive
   batches of 1 to n addresses whose concatenation is the list, also with the
   batch size used when none is passed; every de-duplicated address of
   get_token_data is in exactly one batch of at most 100 addresses. *)
C19_Batches ==
    /\ g_pc = "batched" =>
           /\ ~ba_out.raised
           /\ WellBatched(ba_addresses, ba_out.batches, ba_size)
    /\ g_pc = "loop" =>
           WellBatched(unique_addresses, address_batches, BatchSize)

----------------------------------------------------------------------------
(* Method routing *)

\* The method name the event carries: httpMethod when it has one, else
\* requestContext.http.method, else POST.
CarriedName(e) ==
    IF Truthy(e.httpMethod) THEN Val(e.httpMethod)
    ELSE IF IsNull(e.contextMethod) THEN "POST" ELSE Val(e.contextMethod)

\* The handler has routed a well-formed event.
Routed == event.kind = "dict" /\ r_pc \notin {"idle", "log_event", "route"}

(* C20: method routing depends only on the upper-cased method name, whichever
   event field carries it: OPTIONS returns 200 with an empty body, POST goes on
   to body parsing, every other method returns 405 'Method Not Allowed'. *)
C20_Routing ==
    Routed =>
        LET name == Upper(CarriedName(event))
        IN  /\ name = "OPTIONS" =>
                 r_pc = "done" /\ r_response = [statusCode |-> 200, body |-> ""]
            /\ name = "POST" => method = "POST" /\ r_response.statusCode # 405
            /\ name \notin {"OPTIONS", "POST"} =>
                 /\ r_pc = "done"
                 /\ r_response = [statusCode |-> 405, body |-> "Method Not Allowed"]

----------------------------------------------------------------------------
(* Which tokens and windows are ranked *)

\* Window i of the token reaches no further back than its earliest snapshot.
Survives(sym, i) == TargetOf(sym, i) >= EarliestDate(sym)

\* The planner kept window i of the token.
InPeriods(sym, i) ==
    \E k \in DOMAIN tokens_periods :
        /\ tokens_periods[k].TOKEN_SYMBOL = sym
        /\ tokens_periods[k].PERIOD_LABEL = LabelOf(i)

RankedSymbols == {final_data[n].TOKEN_SYMBOL : n \in DOMAIN final_data}

(* C24: a token of the snapshot set is in the output ranking if and only if at
   least one of its windows survives filtering; a token with a single
   snapshot has no output row at all. *)
C24_RankedIffSurvives ==
    Ranked =>
        /\ RankedSymbols \subseteq SymbolsIn(df)
        /\ \A sym \in SymbolsIn(df) :
             /\ sym \in RankedSymbols <=> \E i \in WindowIndex : Survives(sym, i)
             /\ Cardinality(RowsOf(df, sym)) = 1 => sym \notin RankedSymbols

\* A ranking was returned for a snapshot set in which one token has a single
\* snapshot and another token is ranked.
C24_Witness ==
    /\ Ranked
    /\ \E s1 \in SymbolsIn(df), s2 \in SymbolsIn(df) :
         /\ Cardinality(RowsOf(df, s1)) = 1
         /\ s1 \notin RankedSymbols
         /\ s2 \in RankedSymbols

\* The rows of the ranking that carry the symbol.
RankedRows(sym) == {n \in DOMAIN final_data : final_data[n].TOKEN_SYMBOL = sym}

(* C26: the output contains exactly one row per distinct token symbol that has
   a surviving window, for every snapshot set, including sets where snapshots
   with the same symbol carry different token addresses: no symbol is ranked
   twice. *)
C26_OneRowPerSymbol ==
    Ranked =>
        \A sym \in SymbolsIn(df) :
            Cardinality(RankedRows(sym)) =
                IF \E i \in WindowIndex : Survives(sym, i) THEN 1 ELSE 0

(* C25: the surviving windows of a token are a prefix of the window list
   ordered by duration: when a window survives, every shorter one does. *)
C25_PrefixOfWindows ==
    Planned =>
        \A sym \in SymbolsIn(df), i \in WindowIndex, j \in WindowIndex :
            (time_intervals[i] < time_intervals[j] /\ InPeriods(sym, j))
                => InPeriods(sym, i)

\* The 1h and 2h windows of a token survived and its 4h window did not.
C25_Witness ==
    /\ pc = "metadata"
    /\ \E sym \in SymbolsIn(df) :
         /\ InPeriods(sym, 1)
         /\ InPeriods(sym, 2)
         /\ ~InPeriods(sym, 3)

----------------------------------------------------------------------------
(* Batch results *)

\* Batches both of whose SDK calls have returned.
CompleteBatches ==
    {b \in DOMAIN address_batches :
        /\ \E k \in DOMAIN g_calls : g_calls[k] = <<b, "metadata", "ok">>
        /\ \E k \in DOMAIN g_calls : g_calls[k] = <<b, "price_volume", "ok">>}

AddressesOf(B) == UNION {{address_batches[b][k] : k \in DOMAIN address_batches[b]} : b \in B}

(* C30: batch results are all-or-nothing in get_token_data. After any sequence
   of batch successes and failures the map has an entry for an address exactly
   when both the metadata call and the price/volume call of its batch
   succeeded; a later failure leaves earlier entries unchanged. *)
C30_AllOrNothing ==
    /\ g_pc \in {"loop", "returned"} => token_data = AddressesOf(CompleteBatches)
    /\ (g_pc = "returned" /\ address_batches # <<>>) => g_result = AddressesOf(CompleteBatches)

\* A call returned after a successful first batch, a second batch whose
\* price/volume call failed after its metadata call succeeded, and a failed third.
C30_Witness ==
    /\ g_pc = "returned"
    /\ Len(address_batches) = 3
    /\ CompleteBatches = {1}
    /\ \E k \in DOMAIN g_calls : g_calls[k] = <<2, "price_volume", "fails">>
    /\ \E k \in DOMAIN g_calls : g_calls[k] = <<3, "metadata", "fails">>
    /\ g_result = AddressesOf({1})

----------------------------------------------------------------------------
(* Requests, sessions and faults *)

\* The handler has ended: it returned its response or an exception left it.
Finished == r_pc = "done"

\* The handler made the named external call.
Called(name) == \E k \in DOMAIN r_calls : r_calls[k] = name

\* How many times the handler called session.close().
Closes == Cardinality({k \in DOMAIN r_calls : r_calls[k] = "session.close"})

\* The calls that read data.
DataCalls == {"get_max_fetch_date", "get_trader_portfolio_agg",
              "get_token_data_from_snowflake", "get_price_data"}

\* The handler took the event for a POST request.
PostRequest ==
    event.kind = "dict" /\ method = "POST" /\ r_pc \notin {"idle", "log_event", "route"}

\* The body decodes to a JSON object with a non-empty category and an
\* addresses member that is absent or a list.
AcceptableBody(b) ==
    /\ b.given = "string"
    /\ b.encoding \in {"plain", "base64"}
    /\ b.text.json = "object"
    /\ b.text.category = "ai"
    /\ b.text.addresses \in {"absent", "list", "empty_list"}

(* C21: every POST request whose body does not decode to a JSON object with a
   non-empty category and an addresses value that is absent or a list is
   answered with status 400, never 200 and never 500. *)
C21_InvalidBodyIs400 ==
    (Finished /\ PostRequest /\ ~AcceptableBody(event.body)) =>
        r_raised = "none" /\ r_response.statusCode = 400

(* C22: in every invocation in which create_snowflake_session succeeded,
   session.close() has been called before the handler returns, on every path:
   SDK initialisation failure, empty category, pipeline fault, success. *)
C22_SessionClosed ==
    (Finished /\ session = "created") => Closes >= 1

\* The handler returned after the SDK initialisation failed on a created
\* session.
C22_Witness ==
    /\ Finished
    /\ session = "created"
    /\ r_faults = {"init_sdk"}
    /\ r_response.statusCode = 500
    /\ Closes = 1

(* C23: setup failures stop the request before any data is read. When
   create_snowflake_session fails the handler returns 500 'Failed to connect
   to data source.' without initialising the SDK; when the SDK initialisation
   is the fault of the invocation it returns 500 'Server configuration
   error.'; after either failure no snapshot query and no enrichment call is
   made. *)
C23_SetupFailures ==
    /\ "create_session" \in r_faults =>
           /\ Finished
           /\ r_response = [statusCode |-> 500, body |-> "Failed to connect to data source."]
           /\ ~Called("initialize_birdseye_sdk")
           /\ \A c \in DataCalls : ~Called(c)
    /\ "init_sdk" \in r_faults => \A c \in DataCalls : ~Called(c)
    /\ r_faults = {"init_sdk"} =>
           /\ Finished
           /\ r_response = [statusCode |-> 500, body |-> "Server configuration error."]

\* The SDK initialisation failed on a created session and the handler returned.
C23_Witness ==
    /\ Finished
    /\ r_faults = {"init_sdk"}
    /\ Called("initialize_birdseye_sdk")
    /\ r_response.body = "Server configuration error."

(* C27: no external resource is touched for a rejected request. The session
   is created only after the method check, body decoding, category check and
   addresses check have passed: no response with status 400 or 405 and no
   OPTIONS response is preceded by a call. *)
C27_NoSessionForRejected ==
    /\ Called("create_snowflake_session") =>
           PostRequest /\ check_body(event.body) = "pass"
    /\ (Finished /\ (r_response.statusCode \in {400, 405} \/ method = "OPTIONS")) =>
           r_calls = <<>> /\ session = "unbound"

\* A POST request was rejected for its addresses member, the last check.
C27_Witness ==
    /\ Finished
    /\ PostRequest
    /\ r_response = [statusCode |-> 400, body |-> "\"addresses\" should be a list."]
    /\ r_calls = <<>>

(* C28: in every invocation that created a session, session.close() is called
   exactly once, never twice, also when a fault occurs after the success-path
   close or inside a handler that has already closed the session. *)
C28_ClosedOnce ==
    (Finished /\ session = "created") => Closes = 1

(* C29: the handler is total. For every event it returns a response with
   statusCode in {200, 400, 405, 500} that carries the CORS headers, and no
   exception leaves it, whichever statement the fault occurs in. *)
C29_Total ==
    Finished =>
        /\ r_raised = "none"
        /\ cors_headers
        /\ r_response.statusCode \in {200, 400, 405, 500}

====
